---- MODULE Spec2Model ----
(***************************************************************************)
(* The product catalog (services/product-svc/app.py, Flask) and the order  *)
(* ledger (services/order-svc/main.py, FastAPI).  Each service keeps one   *)
(* module-level list of dicts; every HTTP handler is one action.           *)
(*                                                                         *)
(* Conventions.  Money is kept in cents (999.99 is 99999).  A dict is a    *)
(* function whose DOMAIN is its set of keys, so an absent key is an absent *)
(* field.  An optional query parameter or body is None (the empty tuple)   *)
(* or Some(v) (a one-element tuple).  A category is a tuple of characters, *)
(* so that str.lower() is computed and not assumed.  resp is the HTTP      *)
(* response of the last request served: its status code and its JSON body. *)
(* Time is logical: now counts the mutating requests served so far, and a  *)
(* timestamp is the value of now when datetime.utcnow() is called.         *)
(***************************************************************************)
EXTENDS Integers, Sequences, FiniteSets, TLC

VARIABLES products, orders, resp, now, issued, threaded, threads, acked, targeted

vars == <<products, orders, resp, now, issued, threaded, threads, acked, targeted>>

(* the state of the product service's request threads *)
conc == <<threaded, threads, acked, targeted>>

(* ---------------------------------------------------------------- bounds *)
(* how many mutating requests (create, update, delete) are served *)
MaxWrites == 2
(* how many request threads the product service runs at once *)
MaxThreads == 2

(* --------------------------------------------------------------- helpers *)
None == <<>>
Some(v) == <<v>>

UpperChars == <<"A","B","C","D","E","F","G","H","I","J","K","L","M",
                "N","O","P","Q","R","S","T","U","V","W","X","Y","Z">>
LowerChars == <<"a","b","c","d","e","f","g","h","i","j","k","l","m",
                "n","o","p","q","r","s","t","u","v","w","x","y","z">>

(* str.lower() on one character: the table of the 26 cased ASCII letters *)
LowerTable ==
    [c \in {UpperChars[i] : i \in 1..26} |->
        LowerChars[CHOOSE i \in 1..26 : UpperChars[i] = c]]

LowerChar(c) == IF c \in DOMAIN LowerTable THEN LowerTable[c] ELSE c

lower(s) == [i \in 1..Len(s) |-> LowerChar(s[i])]

Electronics == <<"E","l","e","c","t","r","o","n","i","c","s">>
Books == <<"B","o","o","k","s">>

UuidPool == <<"uuid-a", "uuid-b", "uuid-c", "uuid-d", "uuid-e", "uuid-f">>
uuid4 == UuidPool[issued + 1]

utcnow == now

float(x) == x

(* a dict with the keys of d overwritten or added by those of e *)
DictUpdate(d, e) ==
    [k \in DOMAIN d \cup DOMAIN e |-> IF k \in DOMAIN e THEN e[k] ELSE d[k]]

DictGet(d, k, default) == IF k \in DOMAIN d THEN d[k] ELSE default

EmptyDict == [k \in {} |-> 0]

(* next((x for x in coll if x['id'] == id), None) as an index, 0 for None *)
FindIndex(coll, id) ==
    IF \E i \in 1..Len(coll) : coll[i].id = id
    THEN CHOOSE i \in 1..Len(coll) :
            /\ coll[i].id = id
            /\ \A j \in 1..(i - 1) : coll[j].id # id
    ELSE 0

(* ------------------------------------------------------- product catalog *)
SeedProducts ==
    << [id |-> "1", name |-> "Laptop", price |-> 99999,
        category |-> Electronics, stock |-> 50],
       [id |-> "2", name |-> "Phone", price |-> 69999,
        category |-> Electronics, stock |-> 100],
       [id |-> "3", name |-> "Book", price |-> 1999,
        category |-> Books, stock |-> 200],
       [id |-> "4", name |-> "Headphones", price |-> 14999,
        category |-> Electronics, stock |-> 75] >>

(* `if category:` is false for None and for the empty string *)
Truthy(category) == category # None /\ category[1] # <<>>

(* the listing with `>` in place of `>=` in the minimum price filter *)
FilterProductsStrictMin(coll, category, min_price, max_price) ==
    LET byCat == IF Truthy(category)
                 THEN SelectSeq(coll,
                        LAMBDA p : lower(p.category) = lower(category[1]))
                 ELSE coll
        byMin == IF min_price # None
                 THEN SelectSeq(byCat, LAMBDA p : p.price > min_price[1])
                 ELSE byCat
        byMax == IF max_price # None
                 THEN SelectSeq(byMin, LAMBDA p : p.price <= max_price[1])
                 ELSE byMin
    IN  byMax

FilterProducts(coll, category, min_price, max_price) ==
    LET byCat == IF Truthy(category)
                 THEN SelectSeq(coll,
                        LAMBDA p : lower(p.category) = lower(category[1]))
                 ELSE coll
        byMin == IF min_price # None
                 THEN SelectSeq(byCat, LAMBDA p : p.price >= min_price[1])
                 ELSE byCat
        byMax == IF max_price # None
                 THEN SelectSeq(byMin, LAMBDA p : p.price <= max_price[1])
                 ELSE byMin
    IN  byMax

get_products(category, min_price, max_price) ==
    LET filtered_products == FilterProducts(products, category, min_price, max_price)
    IN  /\ resp' = [op |-> "get_products", code |-> 200,
                    data |-> filtered_products,
                    count |-> Len(filtered_products), timestamp |-> utcnow]
        /\ UNCHANGED <<products, orders, now, issued, conc>>

ProductLookup(coll, product_id) ==
    LET i == FindIndex(coll, product_id)
    IN  IF i = 0
        THEN [op |-> "get_product", code |-> 404]
        ELSE [op |-> "get_product", code |-> 200, data |-> coll[i]]

get_product(product_id) ==
    /\ resp' = ProductLookup(products, product_id)
    /\ UNCHANGED <<products, orders, now, issued, conc>>

(* the body check with a price > 0 requirement added *)
CreateProductValidPositive(data) ==
    /\ data # EmptyDict
    /\ {"name", "price", "category"} \subseteq DOMAIN data
    /\ data.price > 0

CreateProductValid(data) ==
    data # EmptyDict /\ {"name", "price", "category"} \subseteq DOMAIN data

NewProduct(data) ==
    [id |-> uuid4,
     name |-> data.name,
     price |-> float(data.price),
     category |-> data.category,
     stock |-> DictGet(data, "stock", 0),
     created_at |-> utcnow]

create_product(data) ==
    IF ~CreateProductValid(data)
    THEN /\ resp' = [op |-> "create_product", code |-> 400]
         /\ UNCHANGED <<products, orders, now, issued, conc>>
    ELSE /\ now < MaxWrites
         /\ products' = Append(products, NewProduct(data))
         /\ issued' = issued + 1
         /\ now' = now + 1
         /\ resp' = [op |-> "create_product", code |-> 201,
                     data |-> NewProduct(data)]
         /\ UNCHANGED <<orders, conc>>

MergedProduct(product, data) ==
    DictUpdate(product,
        [name |-> DictGet(data, "name", product.name),
         price |-> float(DictGet(data, "price", product.price)),
         category |-> DictGet(data, "category", product.category),
         stock |-> DictGet(data, "stock", product.stock),
         updated_at |-> utcnow])

update_product(product_id, data) ==
    LET i == FindIndex(products, product_id)
    IN  IF i = 0
        THEN /\ resp' = [op |-> "update_product", code |-> 404]
             /\ UNCHANGED <<products, orders, now, issued, conc>>
        ELSE IF data = EmptyDict
        THEN /\ resp' = [op |-> "update_product", code |-> 400]
             /\ UNCHANGED <<products, orders, now, issued, conc>>
        ELSE /\ now < MaxWrites
             /\ products' = [products EXCEPT ![i] = MergedProduct(products[i], data)]
             /\ now' = now + 1
             /\ resp' = [op |-> "update_product", code |-> 200,
                         data |-> MergedProduct(products[i], data)]
             /\ UNCHANGED <<orders, issued, conc>>

(* the filter with `==` in place of `!=` *)
ProductsMatching(coll, product_id) ==
    SelectSeq(coll, LAMBDA p : p.id = product_id)

(* the filter stopping at the first match instead of skipping it *)
ProductsBefore(coll, product_id) ==
    IF FindIndex(coll, product_id) = 0 THEN coll
    ELSE SubSeq(coll, 1, FindIndex(coll, product_id) - 1)

ProductsWithout(coll, product_id) ==
    SelectSeq(coll, LAMBDA p : p.id # product_id)

delete_product(product_id) ==
    /\ now < MaxWrites
    /\ products' = ProductsWithout(products, product_id)
    /\ now' = now + 1
    /\ resp' = [op |-> "delete_product", code |-> 204]
    /\ UNCHANGED <<orders, issued, conc>>

(* ------------------------------------------------------- catalog requests *)
IssuedIds == {UuidPool[i] : i \in 1..issued}

ProductIds == {"2", "3", "nope"} \cup IssuedIds

QueryCategories ==
    {None, Some(<<>>), Some(lower(Electronics)), Some(<<"B","O","O","K","S">>)}
QueryMinPrices == {None, Some(0), Some(14999)}
QueryMaxPrices == {None, Some(70000)}

CreateBodies ==
    { EmptyDict,
      [name |-> "Pen", price |-> 150],
      [name |-> "Pen", category |-> Books],
      [price |-> 150, category |-> Books],
      [name |-> "Pen", price |-> 150, category |-> lower(Books), stock |-> 7],
      [name |-> "Free", price |-> 0, category |-> <<>>],
      [name |-> "Refund", price |-> -500, category |-> Electronics] }

UpdateBodies ==
    { EmptyDict,
      [price |-> 0],
      [name |-> "Tome", category |-> <<"B","O","O","K","S">>] }

(* ------------------------------------------------------------ order ledger *)
(* created_at "2024-01-15T10:30:00Z" and "2024-01-16T14:20:00Z" are the     *)
(* times -2 and -1, before the process started                             *)
SeedOrders ==
    << [id |-> "order-1", user_id |-> "1",
        items |-> << [product_id |-> "1", quantity |-> 1, price |-> 99999],
                     [product_id |-> "4", quantity |-> 2, price |-> 14999] >>,
        total_amount |-> 129997, status |-> "completed",
        shipping_address |-> "123 Main St, City, State", created_at |-> -2],
       [id |-> "order-2", user_id |-> "2",
        items |-> << [product_id |-> "2", quantity |-> 1, price |-> 69999] >>,
        total_amount |-> 69999, status |-> "pending",
        shipping_address |-> "456 Oak Ave, Town, State", created_at |-> -1] >>

valid_statuses == <<"pending", "processing", "shipped", "delivered", "cancelled">>

Range(s) == {s[i] : i \in 1..Len(s)}

(* f"order-{uuid.uuid4()}" *)
OrderIdPool == <<"order-uuid-a", "order-uuid-b", "order-uuid-c",
                 "order-uuid-d", "order-uuid-e", "order-uuid-f">>
order_uuid == OrderIdPool[issued + 1]

(* pydantic: OrderItem.quantity is Field(gt=0), OrderItem.price is Field(gt=0) *)
(* the item check with ge=0 in place of gt=0 on the quantity *)
OrderItemValidNonNegative(item) ==
    /\ {"product_id", "quantity", "price"} \subseteq DOMAIN item
    /\ item.quantity >= 0
    /\ item.price > 0

OrderItemValid(item) ==
    /\ {"product_id", "quantity", "price"} \subseteq DOMAIN item
    /\ item.quantity > 0
    /\ item.price > 0

(* pydantic: OrderCreate has user_id, items: List[OrderItem], shipping_address *)
OrderCreateValid(body) ==
    /\ {"user_id", "items", "shipping_address"} \subseteq DOMAIN body
    /\ \A i \in 1..Len(body.items) : OrderItemValid(body.items[i])

RECURSIVE SumItems(_)
SumItems(items) ==
    IF items = <<>> THEN 0
    ELSE items[1].quantity * items[1].price + SumItems(Tail(items))

(* the new order with the total taken from its first item alone *)
NewOrderFirstItemOnly(order_data) ==
    [id |-> order_uuid,
     user_id |-> order_data.user_id,
     items |-> order_data.items,
     total_amount |-> IF order_data.items = <<>> THEN 0
                      ELSE order_data.items[1].quantity * order_data.items[1].price,
     status |-> "pending",
     shipping_address |-> order_data.shipping_address,
     created_at |-> utcnow]

(* the new order stamped with updated_at at creation *)
NewOrderStamped(order_data) ==
    [id |-> order_uuid,
     user_id |-> order_data.user_id,
     items |-> order_data.items,
     total_amount |-> SumItems(order_data.items),
     status |-> "pending",
     shipping_address |-> order_data.shipping_address,
     created_at |-> utcnow,
     updated_at |-> utcnow]

NewOrder(order_data) ==
    [id |-> order_uuid,
     user_id |-> order_data.user_id,
     items |-> order_data.items,
     total_amount |-> SumItems(order_data.items),
     status |-> "pending",
     shipping_address |-> order_data.shipping_address,
     created_at |-> utcnow]

OrderLookup(coll, order_id) ==
    LET i == FindIndex(coll, order_id)
    IN  IF i = 0
        THEN [op |-> "get_order", code |-> 404]
        ELSE [op |-> "get_order", code |-> 200, data |-> coll[i]]

get_order(order_id) ==
    /\ resp' = OrderLookup(orders, order_id)
    /\ UNCHANGED <<products, orders, now, issued, conc>>

create_order(body) ==
    IF ~OrderCreateValid(body)
    THEN /\ resp' = [op |-> "create_order", code |-> 422]
         /\ UNCHANGED <<products, orders, now, issued, conc>>
    ELSE /\ now < MaxWrites
         /\ orders' = Append(orders, NewOrder(body))
         /\ issued' = issued + 1
         /\ now' = now + 1
         /\ resp' = [op |-> "create_order", code |-> 201, data |-> NewOrder(body)]
         /\ UNCHANGED <<products, conc>>

StatusUpdated(order, status) ==
    DictUpdate(order, [status |-> status, updated_at |-> utcnow])

(* the handler assigning the status before it validates it *)
update_order_status_early(order_id, status) ==
    LET i == FindIndex(orders, order_id)
    IN  IF i = 0
        THEN /\ resp' = [op |-> "update_order_status", code |-> 404]
             /\ UNCHANGED <<products, orders, now, issued, conc>>
        ELSE IF status \notin Range(valid_statuses)
        THEN /\ orders' = [orders EXCEPT ![i] = StatusUpdated(orders[i], status)]
             /\ resp' = [op |-> "update_order_status", code |-> 400]
             /\ UNCHANGED <<products, now, issued, conc>>
        ELSE /\ now < MaxWrites
             /\ orders' = [orders EXCEPT ![i] = StatusUpdated(orders[i], status)]
             /\ now' = now + 1
             /\ resp' = [op |-> "update_order_status", code |-> 200,
                         data |-> StatusUpdated(orders[i], status)]
             /\ UNCHANGED <<products, issued, conc>>

(* the handler refusing to move an order out of cancelled or delivered *)
update_order_status_terminal(order_id, status) ==
    LET i == FindIndex(orders, order_id)
    IN  IF status \notin Range(valid_statuses)
        THEN /\ resp' = [op |-> "update_order_status", code |-> 400]
             /\ UNCHANGED <<products, orders, now, issued, conc>>
        ELSE IF i = 0
        THEN /\ resp' = [op |-> "update_order_status", code |-> 404]
             /\ UNCHANGED <<products, orders, now, issued, conc>>
        ELSE IF orders[i].status \in {"cancelled", "delivered"}
        THEN /\ resp' = [op |-> "update_order_status", code |-> 400]
             /\ UNCHANGED <<products, orders, now, issued, conc>>
        ELSE /\ now < MaxWrites
             /\ orders' = [orders EXCEPT ![i] = StatusUpdated(orders[i], status)]
             /\ now' = now + 1
             /\ resp' = [op |-> "update_order_status", code |-> 200,
                         data |-> StatusUpdated(orders[i], status)]
             /\ UNCHANGED <<products, issued, conc>>

update_order_status(order_id, status) ==
    LET i == FindIndex(orders, order_id)
    IN  IF status \notin Range(valid_statuses)
        THEN /\ resp' = [op |-> "update_order_status", code |-> 400]
             /\ UNCHANGED <<products, orders, now, issued, conc>>
        ELSE IF i = 0
        THEN /\ resp' = [op |-> "update_order_status", code |-> 404]
             /\ UNCHANGED <<products, orders, now, issued, conc>>
        ELSE /\ now < MaxWrites
             /\ orders' = [orders EXCEPT ![i] = StatusUpdated(orders[i], status)]
             /\ now' = now + 1
             /\ resp' = [op |-> "update_order_status", code |-> 200,
                         data |-> StatusUpdated(orders[i], status)]
             /\ UNCHANGED <<products, issued, conc>>

OrdersWithout(coll, order_id) ==
    SelectSeq(coll, LAMBDA o : o.id # order_id)

cancel_order(order_id) ==
    /\ now < MaxWrites
    /\ orders' = OrdersWithout(orders, order_id)
    /\ now' = now + 1
    /\ resp' = [op |-> "cancel_order", code |-> 204]
    /\ UNCHANGED <<products, issued, conc>>

(* -------------------------------------------------------- ledger requests *)
IssuedOrderIds == {OrderIdPool[i] : i \in 1..issued}

OrderIds == {"order-1", "order-2", "nope"} \cup IssuedOrderIds

StatusInputs == Range(valid_statuses) \cup {"bogus", "completed"}

(* two statuses the handler accepts and two it rejects *)
FewStatusInputs == {"shipped", "cancelled", "bogus", "completed"}

OrderBodies ==
    { [user_id |-> "1", shipping_address |-> "9 Elm St"],
      [user_id |-> "1", shipping_address |-> "9 Elm St", items |-> <<>>],
      [user_id |-> "1", shipping_address |-> "9 Elm St",
       items |-> << [product_id |-> "1", quantity |-> 1, price |-> 99999],
                    [product_id |-> "4", quantity |-> 2, price |-> 14999] >>],
      [user_id |-> "2", shipping_address |-> "9 Elm St",
       items |-> << [product_id |-> "3", quantity |-> 0, price |-> 1999] >>],
      [user_id |-> "2", shipping_address |-> "9 Elm St",
       items |-> << [product_id |-> "3", quantity |-> 3, price |-> 1999],
                    [product_id |-> "gone", quantity |-> 1, price |-> 0] >>] }

(* ------------------------------------------- product service, threaded *)
(* app.run() serves each request on a thread of its own when threaded, and *)
(* one request at a time otherwise.  A handler is then a sequence of steps *)
(* between which another thread may run: create_product builds the record, *)
(* appends it, responds; delete_product builds the filtered list from the  *)
(* list bound to `products`, rebinds the global to it, responds.  acked is *)
(* the ids whose create was answered 201 and targeted the ids a delete was *)
(* asked for.                                                              *)
Threads == 1..MaxThreads

Idle == [pc |-> "idle"]

MayStart(t) ==
    /\ threads[t].pc = "idle"
    /\ threaded \/ \A u \in Threads : threads[u].pc = "idle"

CreateRejected(t, data) ==
    /\ MayStart(t)
    /\ ~CreateProductValid(data)
    /\ resp' = [op |-> "create_product", code |-> 400]
    /\ UNCHANGED <<products, orders, now, issued, conc>>

CreateBuild(t, data) ==
    /\ MayStart(t)
    /\ CreateProductValid(data)
    /\ now < MaxWrites
    /\ threads' = [threads EXCEPT
                     ![t] = [pc |-> "append", new_product |-> NewProduct(data)]]
    /\ issued' = issued + 1
    /\ now' = now + 1
    /\ UNCHANGED <<products, orders, resp, threaded, acked, targeted>>

CreateAppend(t) ==
    /\ threads[t].pc = "append"
    /\ products' = Append(products, threads[t].new_product)
    /\ threads' = [threads EXCEPT ![t].pc = "created"]
    /\ UNCHANGED <<orders, resp, now, issued, threaded, acked, targeted>>

CreateReturn(t) ==
    /\ threads[t].pc = "created"
    /\ resp' = [op |-> "create_product", code |-> 201,
                data |-> threads[t].new_product]
    /\ acked' = acked \cup {threads[t].new_product.id}
    /\ threads' = [threads EXCEPT ![t] = Idle]
    /\ UNCHANGED <<products, orders, now, issued, threaded, targeted>>

DeleteFilter(t, product_id) ==
    /\ MayStart(t)
    /\ now < MaxWrites
    /\ threads' = [threads EXCEPT
                     ![t] = [pc |-> "rebind",
                             filtered |-> ProductsWithout(products, product_id)]]
    /\ targeted' = targeted \cup {product_id}
    /\ now' = now + 1
    /\ UNCHANGED <<products, orders, resp, issued, threaded, acked>>

DeleteRebind(t) ==
    /\ threads[t].pc = "rebind"
    /\ products' = threads[t].filtered
    /\ threads' = [threads EXCEPT ![t] = [pc |-> "deleted"]]
    /\ UNCHANGED <<orders, resp, now, issued, threaded, acked, targeted>>

DeleteReturn(t) ==
    /\ threads[t].pc = "deleted"
    /\ resp' = [op |-> "delete_product", code |-> 204]
    /\ threads' = [threads EXCEPT ![t] = Idle]
    /\ UNCHANGED <<products, orders, now, issued, threaded, acked, targeted>>

(* --------------------------------------------------------- specifications *)
Init ==
    /\ products = SeedProducts
    /\ orders = SeedOrders
    /\ resp = [op |-> "none", code |-> 0]
    /\ now = 0
    /\ issued = 0
    /\ threaded = FALSE
    /\ threads = [t \in Threads |-> Idle]
    /\ acked = {}
    /\ targeted = {}

InitThreads ==
    /\ products = SeedProducts
    /\ orders = SeedOrders
    /\ resp = [op |-> "none", code |-> 0]
    /\ now = 0
    /\ issued = 0
    /\ threaded \in BOOLEAN
    /\ threads = [t \in Threads |-> Idle]
    /\ acked = {}
    /\ targeted = {}

NextCatalog ==
    \/ \E c \in QueryCategories, mn \in QueryMinPrices, mx \in QueryMaxPrices :
            get_products(c, mn, mx)
    \/ \E id \in ProductIds : get_product(id)
    \/ \E data \in CreateBodies : create_product(data)
    \/ \E id \in ProductIds, data \in UpdateBodies : update_product(id, data)
    \/ \E id \in ProductIds : delete_product(id)

NextLedger ==
    \/ \E id \in OrderIds : get_order(id)
    \/ \E body \in OrderBodies : create_order(body)
    \/ \E id \in OrderIds, s \in StatusInputs : update_order_status(id, s)
    \/ \E id \in OrderIds : cancel_order(id)

(* both services, every handler that can answer with an error or that writes *)
NextWrites ==
    \/ \E id \in ProductIds : get_product(id)
    \/ \E data \in CreateBodies : create_product(data)
    \/ \E id \in ProductIds, data \in UpdateBodies : update_product(id, data)
    \/ \E id \in ProductIds : delete_product(id)
    \/ \E id \in OrderIds : get_order(id)
    \/ \E body \in OrderBodies : create_order(body)
    \/ \E id \in OrderIds, s \in FewStatusInputs : update_order_status(id, s)
    \/ \E id \in OrderIds : cancel_order(id)

NextThreads ==
    \/ \E t \in Threads, data \in CreateBodies : CreateRejected(t, data)
    \/ \E t \in Threads, data \in CreateBodies : CreateBuild(t, data)
    \/ \E t \in Threads : CreateAppend(t)
    \/ \E t \in Threads : CreateReturn(t)
    \/ \E t \in Threads, id \in ProductIds : DeleteFilter(t, id)
    \/ \E t \in Threads : DeleteRebind(t)
    \/ \E t \in Threads : DeleteReturn(t)

SpecCatalog == Init /\ [][NextCatalog]_vars

SpecLedger == Init /\ [][NextLedger]_vars

Spec == Init /\ [][NextWrites]_vars

SpecThreads == InitThreads /\ [][NextThreads]_vars

(* ------------------------------------------------------------ properties *)
ErrorCodes == {400, 404, 422}

RequiredProductKeys == {"name", "price", "category"}

ItemsPositive(items) ==
    \A i \in 1..Len(items) : items[i].quantity > 0 /\ items[i].price > 0

SeedOrderIds == {"order-1", "order-2"}

HasUpdatedAt(o) == "updated_at" \in DOMAIN o

(* C1: a request answered 400, 404 or 422 leaves the product list and the
   order list as they were; update_order_status with the status "bogus" is
   answered 400, and create_product without name, price or category is
   answered 400. *)
ErrorsLeaveCollections ==
    [][ /\ resp'.code \in ErrorCodes => products' = products /\ orders' = orders
        /\ \A id \in OrderIds :
              update_order_status(id, "bogus") => resp'.code = 400
        /\ \A data \in CreateBodies :
              create_product(data) /\ ~(RequiredProductKeys \subseteq DOMAIN data)
                  => resp'.code = 400 /\ Len(products') = Len(products)
      ]_vars

BogusStatusRejectedAfterWrite ==
    /\ resp.op = "update_order_status"
    /\ resp.code = 400
    /\ now > 0
    /\ Len(orders) = 3

(* C2, as claimed: an order is created only from a non-empty sequence of
   items that all have quantity > 0 and price > 0. *)
CreatedOrderHasItems ==
    resp.op = "create_order" /\ resp.code = 201
        => resp.data.items # <<>> /\ ItemsPositive(resp.data.items)

(* C2, amended: create_order answers 201 and appends the order exactly when
   the body has all its fields and every item has quantity > 0 and
   price > 0, the empty sequence of items included; otherwise it answers
   422 and adds no order. *)
CreateOrderChecksItemsOnly ==
    [][ \A body \in OrderBodies :
          create_order(body) =>
            IF {"user_id", "items", "shipping_address"} \subseteq DOMAIN body
               /\ ItemsPositive(body.items)
            THEN /\ resp'.code = 201
                 /\ orders' = Append(orders, resp'.data)
                 /\ resp'.data.items = body.items
            ELSE /\ resp'.code = 422
                 /\ orders' = orders
      ]_vars

EmptyOrderStored ==
    /\ resp.op = "create_order"
    /\ resp.code = 201
    /\ resp.data.items = <<>>
    /\ orders[Len(orders)] = resp.data

(* C3: the status of every stored order is one of pending, processing,
   shipped, delivered, cancelled. *)
StoredStatusesValid ==
    \A i \in 1..Len(orders) : orders[i].status \in Range(valid_statuses)

(* C4: every stored order's total_amount is the sum of quantity * price over
   its items, and no request changes the items or the total_amount of an
   order that stays stored. *)
TotalAmountIsItemSum ==
    /\ [](\A i \in 1..Len(orders) :
             orders[i].total_amount = SumItems(orders[i].items))
    /\ [][ \A i \in 1..Len(orders), j \in 1..Len(orders') :
             orders[i].id = orders'[j].id =>
                /\ orders'[j].items = orders[i].items
                /\ orders'[j].total_amount = orders[i].total_amount
         ]_vars

CreatedOrderUpdated ==
    \E i \in 1..Len(orders) :
        /\ orders[i].id \notin SeedOrderIds
        /\ Len(orders[i].items) = 2
        /\ HasUpdatedAt(orders[i])

(* C5, as claimed: every product a successful create_product stores has
   price > 0. *)
CreatedPricePositive ==
    resp.op = "create_product" /\ resp.code = 201 => resp.data.price > 0

(* C5, amended: create_product does not look at the sign of the price.  It
   answers 201 and appends a product whose price is the numeric value of
   the request's price whenever name, price and category are all present,
   and answers 400 and stores nothing otherwise. *)
CreateProductStoresAnyPrice ==
    [][ \A data \in CreateBodies :
          create_product(data) =>
            IF RequiredProductKeys \subseteq DOMAIN data
            THEN /\ resp'.code = 201
                 /\ products' = Append(products, resp'.data)
                 /\ resp'.data.price = data.price
            ELSE /\ resp'.code = 400
                 /\ products' = products
      ]_vars

NonPositivePriceStored ==
    /\ resp.op = "create_product"
    /\ resp.code = 201
    /\ resp.data.price <= 0
    /\ products[Len(products)] = resp.data

(* the products that satisfy every filter that counts as supplied *)
Matching(coll, has_category, category, min_price, max_price) ==
    SelectSeq(coll, LAMBDA p :
        /\ has_category => lower(p.category) = lower(category[1])
        /\ min_price # None => p.price >= min_price[1]
        /\ max_price # None => p.price <= max_price[1])

IsGiven(x) == x # None

IsGivenNonEmpty(x) == x # None /\ x[1] # <<>>

(* C6, as claimed: for every combination of filters the listing is exactly
   the products that satisfy every supplied filter, in list order. *)
ListingMatchesSuppliedFilters ==
    \A c \in QueryCategories, mn \in QueryMinPrices, mx \in QueryMaxPrices :
        FilterProducts(products, c, mn, mx) = Matching(products, IsGiven(c), c, mn, mx)

(* C6, amended: the same, except that a category filter that is the empty
   string counts as not supplied.  The count is the length of the data, a
   listing without filters is the whole list, and get_products leaves the
   list as it was. *)
ListingMatchesNonEmptyFilters ==
    /\ [](\A c \in QueryCategories, mn \in QueryMinPrices, mx \in QueryMaxPrices :
             FilterProducts(products, c, mn, mx)
                = Matching(products, IsGivenNonEmpty(c), c, mn, mx))
    /\ [](FilterProducts(products, None, None, None) = products)
    /\ [][ resp'.op = "get_products" =>
              /\ products' = products
              /\ resp'.count = Len(resp'.data)
              /\ \E c \in QueryCategories, mn \in QueryMinPrices,
                    mx \in QueryMaxPrices :
                    resp'.data = Matching(products, IsGivenNonEmpty(c), c, mn, mx)
         ]_vars

ListingFilteredAfterWrites ==
    /\ resp.op = "get_products"
    /\ now = MaxWrites
    /\ resp.count > 0
    /\ resp.count < Len(products)
    /\ \E i \in 1..Len(resp.data) : resp.data[i].id \in IssuedIds

(* C7: delete_product answers 204 whether or not the id is stored; after it
   a lookup of the id answers 404, deleting the id again changes nothing,
   and the products with another id are the same, in the same order. *)
DeleteIsIdempotent ==
    [][ \A id \in ProductIds :
          delete_product(id) =>
            /\ resp'.code = 204
            /\ ProductLookup(products', id).code = 404
            /\ ProductsWithout(products', id) = products'
            /\ \A i \in 1..Len(products') : products'[i].id # id
            /\ SelectSeq(products', LAMBDA p : p.id # id)
                  = SelectSeq(products, LAMBDA p : p.id # id)
      ]_vars

DeletedTwice ==
    /\ resp.op = "delete_product"
    /\ now = 2
    /\ issued = 0
    /\ Len(products) = Len(SeedProducts) - 1
    /\ \A i \in 1..Len(products) : ~HasUpdatedAt(products[i])

(* C8: for a stored order in any status and any of the five valid statuses,
   update_order_status answers 200 and the order then has that status, the
   other orders being untouched. *)
AnyStatusFromAnyStatus ==
    [][ \A id \in OrderIds, s \in Range(valid_statuses) :
          update_order_status(id, s) /\ FindIndex(orders, id) # 0 =>
            /\ resp'.code = 200
            /\ Len(orders') = Len(orders)
            /\ orders'[FindIndex(orders, id)].status = s
            /\ orders'[FindIndex(orders, id)].id = id
            /\ \A k \in 1..Len(orders) :
                  k # FindIndex(orders, id) => orders'[k] = orders[k]
      ]_vars

SeedOrderShippedOnSecondWrite ==
    /\ resp.op = "update_order_status"
    /\ resp.code = 200
    /\ resp.data.status = "shipped"
    /\ resp.data.updated_at = 1
    /\ resp.data.id = "order-1"
    /\ orders[1] = resp.data

(* C9: no order has updated_at before any write; afterwards an order has
   updated_at exactly when it had it already or the request just served is
   a successful update_order_status of its id. *)
UpdatedAtOnlyByStatusChange ==
    /\ [](now = 0 => \A i \in 1..Len(orders) : ~HasUpdatedAt(orders[i]))
    /\ [][ \A j \in 1..Len(orders') :
             HasUpdatedAt(orders'[j]) <=>
                \/ \E i \in 1..Len(orders) :
                      orders[i].id = orders'[j].id /\ HasUpdatedAt(orders[i])
                \/ /\ resp'.op = "update_order_status"
                   /\ resp'.code = 200
                   /\ resp'.data.id = orders'[j].id
         ]_vars

UpdatedBesideFresh ==
    /\ \E i \in 1..Len(orders) :
          orders[i].id \in SeedOrderIds /\ HasUpdatedAt(orders[i])
    /\ \E i \in 1..Len(orders) :
          orders[i].id \notin SeedOrderIds /\ ~HasUpdatedAt(orders[i])

(* a product whose create was answered 201 is gone though no delete named it *)
Lost == \E id \in acked \ targeted : FindIndex(products, id) = 0

(* C10: when requests are served one at a time no acknowledged product is
   lost; with threads, a create that appends between a delete's filtering
   and its rebinding is lost. *)
NoLostProductWhenSerial == Lost => threaded

CreateLostToConcurrentDelete ==
    /\ Lost
    /\ threaded
    /\ \A t \in Threads : threads[t].pc = "idle"

====
